---- MODULE Spec2Model ----
(***************************************************************************)
(* The encrypted wallet store of tetsuo-solana-wallet: src/core/crypto.ts  *)
(* (envelope cipher, key derivation) and src/core/wallet.ts (store file,   *)
(* configuration file, the wallet operations).                             *)
(*                                                                         *)
(* Cryptographic primitives of the libraries (bip39, ed25519-hd-key,       *)
(* tweetnacl, bs58, node:crypto) are symbolic terms: a digest or a key is  *)
(* the record of what it was computed from, so two of them are equal       *)
(* exactly when the library computes them from the same inputs.            *)
(***************************************************************************)
EXTENDS Integers, Sequences, FiniteSets, TLC

VARIABLES
  walletFile,      \* ~/.tetsuo-solana/wallets.enc : [st, data]
  configFile,      \* ~/.tetsuo-solana/config.json : [st, data]
  DEFAULT_CONFIG,  \* the module-level object of wallet.ts (one per process)
  now,             \* the clock read by new Date()
  passwordOf,      \* history: the password each stored name was sealed with
  last,            \* the last call: operation, arguments, outcome
  proc             \* per process, a call under way: its place and its locals

vars == <<walletFile, configFile, DEFAULT_CONFIG, now, passwordOf, last, proc>>

----------------------------------------------------------------------------
(* Bounds of the model. *)

\* createWallet / importWalletFromMnemonic succeed while now < MaxClock.
MaxClock == 2

\* Phrases handed to the key derivation have 1..MaxWords words.
MaxWords == 27

(* Inputs. *)

\* Wallet names; the type is string, the empty string included.
Names == {"", "a", "b"}

\* Passwords as byte strings.
Passwords == {<<1>>, <<1, 0>>, <<2>>}
StorePasswords == {<<1>>, <<2>>}

\* 'mainnet' | 'devnet' | 'testnet'; two of the three are drawn.
Networks == {"mainnet", "devnet"}

\* crypto.randomBytes(32) and crypto.randomBytes(16), and the entropy
\* bip39.generateMnemonic draws.
Salts == {0, 1}
IVs == {0, 1}
Entropies == {0, 1}

\* null (activeWallet), and the absent password of the history variable.
Null == "<null>"
NoPassword == <<>>

----------------------------------------------------------------------------
(* crypto.ts : mnemonics and key derivation. *)

\* A phrase: its number of words, whether every word is in the wordlist,
\* the entropy its words encode and the checksum bits they carry.
Checksum(ent) == ent % 2

Phrase(n, ent) == [words |-> n, listed |-> TRUE, ent |-> ent, ck |-> Checksum(ent)]

BadChecksum(n, ent) == [Phrase(n, ent) EXCEPT !.ck = 1 - Checksum(ent)]

\* bip39.generateMnemonic(strength): strength bits of entropy plus
\* strength/32 checksum bits, 11 bits a word.
generateMnemonic(strength, ent) == Phrase((strength + strength \div 32) \div 11, ent)

\* bip39.validateMnemonic = mnemonicToEntropy does not throw.
validateMnemonic(mnemonic) ==
  LET bits == 11 * mnemonic.words
      dividerIndex == (bits \div 33) * 32
      entropyBytes == (dividerIndex + 7) \div 8
  IN  /\ mnemonic.words % 3 = 0
      /\ mnemonic.listed
      /\ entropyBytes >= 16
      /\ entropyBytes <= 32
      /\ entropyBytes % 4 = 0
      /\ mnemonic.ck = Checksum(mnemonic.ent)

SOLANA_DERIVATION_PATH == "m/44'/501'/0'/0'"

\* nacl.sign.keyPair.fromSeed(derivePath(path, mnemonicToSeedSync(mnemonic)))
deriveKeypairFromMnemonic(mnemonic) ==
  IF ~validateMnemonic(mnemonic)
    THEN [err |-> "InvalidMnemonic", keypair |-> Null]
    ELSE LET derivedSeed == [path |-> SOLANA_DERIVATION_PATH, seed |-> mnemonic]
         IN  [err |-> "ok",
              keypair |-> [publicKey |-> [pub |-> derivedSeed],
                           secretKey |-> [sec |-> derivedSeed]]]

publicKeyToAddress(publicKey) == [bs58 |-> publicKey]

\* generateWallet deriving the keypair on another path than importWallet.
generateWalletOtherPath(ent) ==
  LET mnemonic == generateMnemonic(256, ent)
      derivedSeed == [path |-> "m/44'/501'/0'", seed |-> mnemonic]
      keypair == [publicKey |-> [pub |-> derivedSeed], secretKey |-> [sec |-> derivedSeed]]
  IN  [err |-> "ok", mnemonic |-> mnemonic, keypair |-> keypair,
       address |-> publicKeyToAddress(keypair.publicKey)]

generateWallet(ent) ==
  LET mnemonic == generateMnemonic(256, ent)
      kp == deriveKeypairFromMnemonic(mnemonic)
  IN  IF kp.err # "ok"
        THEN [err |-> kp.err, mnemonic |-> mnemonic, keypair |-> Null, address |-> Null]
        ELSE [err |-> "ok", mnemonic |-> mnemonic, keypair |-> kp.keypair,
              address |-> publicKeyToAddress(kp.keypair.publicKey)]

\* importWallet without the validation of the phrase.
importWalletUnchecked(mnemonic) ==
  LET derivedSeed == [path |-> SOLANA_DERIVATION_PATH, seed |-> mnemonic]
      keypair == [publicKey |-> [pub |-> derivedSeed], secretKey |-> [sec |-> derivedSeed]]
  IN  [err |-> "ok", mnemonic |-> mnemonic, keypair |-> keypair,
       address |-> publicKeyToAddress(keypair.publicKey)]

importWallet(mnemonic) ==
  LET kp == deriveKeypairFromMnemonic(mnemonic)
  IN  IF kp.err # "ok"
        THEN [err |-> kp.err, mnemonic |-> mnemonic, keypair |-> Null, address |-> Null]
        ELSE [err |-> "ok", mnemonic |-> mnemonic, keypair |-> kp.keypair,
              address |-> publicKeyToAddress(kp.keypair.publicKey)]

----------------------------------------------------------------------------
(* crypto.ts : the envelope cipher. *)

PBKDF2_ITERATIONS == 100000
PBKDF2_KEYLEN == 32

\* HMAC pads a key shorter than the hash block with zero bytes, so two
\* passwords give one HMAC key exactly when they agree once their trailing
\* zero bytes are removed (passwords here are shorter than the block).
RECURSIVE HmacKey(_)
HmacKey(password) ==
  IF Len(password) > 0 /\ password[Len(password)] = 0
    THEN HmacKey(SubSeq(password, 1, Len(password) - 1))
    ELSE password

\* crypto.pbkdf2Sync(password, salt, iterations, keylen, 'sha256')
pbkdf2Sync(password, salt, iterations, keylen) ==
  [prf |-> HmacKey(password), salt |-> salt, c |-> iterations, dkLen |-> keylen]

\* A string of the program is a phrase (words of the wordlist and spaces,
\* all ASCII) or a sequence of UTF-16 code units: "w" an ordinary character,
\* "hi" and "lo" the two halves of a surrogate pair, "fffd" U+FFFD.
String(units) == [units |-> units]

\* The code points of a sequence of code units as the 'utf8' encoding of
\* Node writes them: a surrogate that is not part of a pair is written as
\* U+FFFD.
RECURSIVE codePoints(_)
codePoints(units) ==
  IF units = <<>> THEN <<>>
  ELSE IF Len(units) >= 2 /\ units[1] = "hi" /\ units[2] = "lo"
    THEN <<"hi", "lo">> \o codePoints(SubSeq(units, 3, Len(units)))
  ELSE IF units[1] \in {"hi", "lo"}
    THEN <<"fffd">> \o codePoints(Tail(units))
  ELSE <<units[1]>> \o codePoints(Tail(units))

\* cipher.update(data, 'utf8', ..): the bytes of the string.
utf8Encode(data) ==
  [utf8 |-> IF "units" \in DOMAIN data THEN String(codePoints(data.units)) ELSE data]

\* decipher.update(.., .., 'utf8'): the string of the bytes.
utf8Decode(bytes) == bytes.utf8

\* buffer.toString('hex') and Buffer.from(string, 'hex').
toHex(bytes) == [hex |-> bytes]
fromHex(string) == string.hex

\* AES-256-GCM: the ciphertext and the tag of data under (key, iv).
gcmCipher(key, iv, data) == [key |-> key, iv |-> iv, pt |-> data]
gcmTag(key, iv, ciphertext) == [key |-> key, iv |-> iv, ct |-> ciphertext]

\* The envelope is the JSON text of an object, modelled by the object; a
\* strict prefix of such a text is modelled by Truncated.
Truncated(object) == [truncated |-> object]

\* JSON.parse(text) does not throw.
parsesJSON(text) == "truncated" \notin DOMAIN text

EnvelopeFields == {"salt", "iv", "authTag", "encrypted"}

encrypt(data, password, salt, iv) ==
  LET key == pbkdf2Sync(password, salt, PBKDF2_ITERATIONS, PBKDF2_KEYLEN)
      encrypted == gcmCipher(key, iv, utf8Encode(data))
  IN  [salt |-> toHex(salt), iv |-> toHex(iv),
       authTag |-> toHex(gcmTag(key, iv, encrypted)),
       encrypted |-> toHex(encrypted)]

\* JSON.parse throws a SyntaxError; Buffer.from and decipher.update throw a
\* TypeError for a field that is undefined; decipher.final() throws when the
\* tag does not verify.
decrypt(encryptedData, password) ==
  IF ~parsesJSON(encryptedData)
    THEN [err |-> "SyntaxError", data |-> Null]
  ELSE IF ~(EnvelopeFields \subseteq DOMAIN encryptedData)
    THEN [err |-> "TypeError", data |-> Null]
  ELSE
    LET key == pbkdf2Sync(password, fromHex(encryptedData.salt),
                          PBKDF2_ITERATIONS, PBKDF2_KEYLEN)
        iv == fromHex(encryptedData.iv)
        encrypted == fromHex(encryptedData.encrypted)
    IN  IF fromHex(encryptedData.authTag) = gcmTag(key, iv, encrypted)
          THEN [err |-> "ok", data |-> utf8Decode(encrypted.pt)]
          ELSE [err |-> "Unsupported state or unable to authenticate data",
                data |-> Null]

----------------------------------------------------------------------------
(* wallet.ts : the two files and the configuration object. *)

\* An optional value (undefined / null, or a value).
None == <<>>
Some(x) == <<x>>

\* A file: absent, complete ("ok"), or, while fs.writeFileSync is under way,
\* opened with O_TRUNC ("empty") or holding a strict prefix of the text
\* ("partial").  data is the value the complete text parses to.
NoWallets == <<>>
NoConfig == [k \in {} |-> Null]
AbsentWalletFile == [st |-> "absent", data |-> NoWallets]
AbsentConfigFile == [st |-> "absent", data |-> NoConfig]

existsSync(file) == file.st # "absent"

\* JSON.parse of the file's text: a strict prefix of the text of an array or
\* an object, the empty text included, is a SyntaxError.
parses(file) == file.st = "ok"

DefaultConfig ==
  [activeWallet |-> Null, network |-> "mainnet",
   rpcEndpoint |-> "https://api.mainnet-beta.solana.com"]

\* { ...a, ...b }
spread(a, b) ==
  [k \in DOMAIN a \cup DOMAIN b |-> IF k \in DOMAIN b THEN b[k] ELSE a[k]]

\* loadConfig(): the object read and merged, or DEFAULT_CONFIG itself
\* (aliased: an assignment to the result is an assignment to DEFAULT_CONFIG).
loadConfig(file, dflt) ==
  IF existsSync(file)
    THEN IF parses(file)
           THEN [err |-> "ok", config |-> spread(dflt, file.data), aliased |-> FALSE]
           ELSE [err |-> "SyntaxError", config |-> dflt, aliased |-> FALSE]
    ELSE [err |-> "ok", config |-> dflt, aliased |-> TRUE]

\* saveConfig without the delete: every field is written.
safeConfigKept(config) == config

\* saveConfig(config): the text written, without grokApiKey.
safeConfig(config) == [k \in DOMAIN config \ {"grokApiKey"} |-> config[k]]

saveConfig(config) == [st |-> "ok", data |-> safeConfig(config)]

\* loadWallets()
loadWallets(file) ==
  IF existsSync(file)
    THEN IF parses(file)
           THEN [err |-> "ok", wallets |-> file.data]
           ELSE [err |-> "SyntaxError", wallets |-> NoWallets]
    ELSE [err |-> "ok", wallets |-> NoWallets]

\* saveWallets writing the first record only.
saveWalletsFirst(wallets) == [st |-> "ok", data |-> SubSeq(wallets, 1, 1)]

\* saveWallets(wallets)
saveWallets(wallets) == [st |-> "ok", data |-> wallets]

\* wallets.some(w => w.name === name)
some(wallets, name) == \E i \in 1..Len(wallets) : wallets[i].name = name

\* findIndex with a predicate that is always true: the first record.
findIndexFirst(wallets, name) == IF Len(wallets) > 0 THEN 1 ELSE 0

\* wallets.findIndex(w => w.name === name), counted from 1; 0 for -1.
findIndex(wallets, name) ==
  IF some(wallets, name)
    THEN CHOOSE i \in 1..Len(wallets) :
           /\ wallets[i].name = name
           /\ \A j \in 1..(i - 1) : wallets[j].name # name
    ELSE 0

\* The duplicate-name check made against the wrong field.
nameTakenWrongField(wallets, name) ==
  \E i \in 1..Len(wallets) : wallets[i].network = name

\* createWallet, importWalletFromMnemonic: the duplicate-name check.
nameTaken(wallets, name) == some(wallets, name)

\* wallets.find(w => w.name === name)
find(wallets, name) ==
  IF findIndex(wallets, name) = 0 THEN None ELSE Some(wallets[findIndex(wallets, name)])

\* Removal by moving the last record into the place of the removed one.
spliceMovingLast(wallets, index) ==
  IF index = Len(wallets)
    THEN SubSeq(wallets, 1, index - 1)
    ELSE [SubSeq(wallets, 1, Len(wallets) - 1) EXCEPT ![index] = wallets[Len(wallets)]]

\* wallets.splice(index, 1)
splice(wallets, index) ==
  SubSeq(wallets, 1, index - 1) \o SubSeq(wallets, index + 1, Len(wallets))

\* push that also gives the records already stored the network of the new
\* one.
pushRetagging(wallets, storedWallet) ==
  [i \in 1..(Len(wallets) + 1) |->
     IF i <= Len(wallets) THEN [wallets[i] EXCEPT !.network = storedWallet.network]
     ELSE storedWallet]

\* wallets.push(storedWallet)
push(wallets, storedWallet) == Append(wallets, storedWallet)

\* The record createWallet and importWalletFromMnemonic build.
StoredWallet(name, address, encryptedMnemonic, createdAt, network) ==
  [name |-> name, address |-> address, encryptedMnemonic |-> encryptedMnemonic,
   createdAt |-> createdAt, network |-> network]

\* config.activeWallet = name; config.network = network
activate(config, name, network) ==
  [config EXCEPT !.activeWallet = name, !.network = network]

\* The comparison of deleteWallet made against the wrong field.
wasActiveWrongField(config, name) == config.network = name

\* deleteWallet: config.activeWallet === name
wasActive(config, name) == config.activeWallet = name

\* deleteWallet clearing the active wallet whatever remains.
nextActiveCleared(wallets) == Null

\* deleteWallet: wallets.length > 0 ? wallets[0].name : null
nextActive(wallets) == IF Len(wallets) > 0 THEN wallets[1].name ELSE Null

\* getWallet with a predicate that is always true: the first record.
getWalletFirst(file, name) ==
  LET wallets == loadWallets(file).wallets
  IN  IF Len(wallets) > 0 THEN Some(wallets[1]) ELSE None

\* getWallet(name)
getWallet(file, name) == find(loadWallets(file).wallets, name)

\* getActiveWallet(): !config.activeWallet is true of null and of ''.
falsy(v) == v = Null \/ v = ""

getActiveWallet(wFile, cFile, dflt) ==
  LET config == loadConfig(cFile, dflt).config
  IN  IF falsy(config.activeWallet) THEN None ELSE getWallet(wFile, config.activeWallet)

\* listWallets returning the records themselves.
listWalletsWhole(file) == loadWallets(file).wallets

\* listWallets()
listWallets(file) ==
  LET wallets == loadWallets(file).wallets
  IN  [i \in 1..Len(wallets) |->
         [name |-> wallets[i].name, address |-> wallets[i].address,
          network |-> wallets[i].network]]

----------------------------------------------------------------------------
(* The outcome of a call, as its caller sees it. *)

NoArg == <<>>
NoRet == <<>>

\* enc counts the calls of encrypt, wrote names the files written.
Outcome(op, name, arg, err, ret, enc, wrote) ==
  [op |-> op, name |-> name, arg |-> arg, err |-> err, ret |-> ret, enc |-> enc,
   wrote |-> wrote]

----------------------------------------------------------------------------
(* Processes running the program on the same two files. *)

Procs == {"p1", "p2"}

\* A process between two calls: pc is the function about to run, wallets and
\* config are the locals of the call, dflt is the process's DEFAULT_CONFIG,
\* done is the last createWallet or deleteWallet that returned to it without
\* an error.
NoCall == <<>>

IdleProc ==
  [pc |-> "idle", op |-> "none", name |-> Null, wallets |-> NoWallets,
   config |-> DefaultConfig, aliased |-> FALSE, dflt |-> DefaultConfig, wrote |-> {},
   done |-> NoCall]

----------------------------------------------------------------------------
(* The operations of wallet.ts, each a whole call. *)

Init ==
  /\ walletFile = AbsentWalletFile
  /\ configFile = AbsentConfigFile
  /\ DEFAULT_CONFIG = DefaultConfig
  /\ now = 0
  /\ passwordOf = [n \in Names |-> NoPassword]
  /\ last = Outcome("none", Null, NoArg, "ok", NoRet, 0, {})
  /\ proc = [p \in Procs |-> IdleProc]

\* The tail of createWallet and importWalletFromMnemonic: push, saveWallets,
\* loadConfig, the two assignments, saveConfig.
StoreAndActivate(wallets, storedWallet, password) ==
  LET loaded == loadConfig(configFile, DEFAULT_CONFIG)
      config == activate(loaded.config, storedWallet.name, storedWallet.network)
  IN  /\ walletFile' = saveWallets(push(wallets, storedWallet))
      /\ configFile' = saveConfig(config)
      /\ DEFAULT_CONFIG' = IF loaded.aliased THEN config ELSE DEFAULT_CONFIG
      /\ now' = now + 1
      /\ passwordOf' = [passwordOf EXCEPT ![storedWallet.name] = password]

\* ent, salt and iv are what generateMnemonic and the two randomBytes calls
\* of encrypt draw during the call.
CreateWallet(name, password, network, ent, salt, iv) ==
  LET wallets == loadWallets(walletFile).wallets
      keys == generateWallet(ent)
      storedWallet ==
        StoredWallet(name, keys.address,
                     encrypt(keys.mnemonic, password, salt, iv), now, network)
  IN  \/ /\ nameTaken(wallets, name)
         /\ UNCHANGED proc
         /\ last' = Outcome("createWallet", name, NoArg, "AlreadyExists", NoRet, 0, {})
         /\ UNCHANGED <<walletFile, configFile, DEFAULT_CONFIG, now, passwordOf>>
      \/ /\ ~nameTaken(wallets, name)
         /\ now < MaxClock
         /\ StoreAndActivate(wallets, storedWallet, password)
         /\ UNCHANGED proc
         /\ last' = Outcome("createWallet", name, NoArg, "ok",
                            [wallet |-> storedWallet, mnemonic |-> keys.mnemonic], 1,
                            {"wallets", "config"})

\* Phrases handed to importWalletFromMnemonic: a phrase createWallet
\* returns, and a 12-word phrase with a wrong checksum.
ImportPhrases == {generateMnemonic(256, 0), BadChecksum(12, 0)}

ImportWalletFromMnemonic(name, mnemonic, password, network, salt, iv) ==
  LET wallets == loadWallets(walletFile).wallets
      keys == importWallet(mnemonic)
      storedWallet ==
        StoredWallet(name, keys.address,
                     encrypt(mnemonic, password, salt, iv), now, network)
  IN  \/ /\ nameTaken(wallets, name)
         /\ UNCHANGED proc
         /\ last' = Outcome("importWalletFromMnemonic", name, mnemonic,
                            "AlreadyExists", NoRet, 0, {})
         /\ UNCHANGED <<walletFile, configFile, DEFAULT_CONFIG, now, passwordOf>>
      \/ /\ ~nameTaken(wallets, name)
         /\ keys.err # "ok"
         /\ UNCHANGED proc
         /\ last' = Outcome("importWalletFromMnemonic", name, mnemonic,
                            keys.err, NoRet, 0, {})
         /\ UNCHANGED <<walletFile, configFile, DEFAULT_CONFIG, now, passwordOf>>
      \/ /\ ~nameTaken(wallets, name)
         /\ keys.err = "ok"
         /\ now < MaxClock
         /\ StoreAndActivate(wallets, storedWallet, password)
         /\ UNCHANGED proc
         /\ last' = Outcome("importWalletFromMnemonic", name, mnemonic,
                            "ok", storedWallet, 1, {"wallets", "config"})

\* unlockWallet(name, password): what it returns or throws.
unlockWallet(file, name, password) ==
  LET wallet == find(loadWallets(file).wallets, name)
  IN  IF wallet = None
        THEN [err |-> "NotFound", ret |-> NoRet]
        ELSE LET opened == decrypt(wallet[1].encryptedMnemonic, password)
                 keys == importWallet(opened.data)
             IN  IF opened.err # "ok" \/ keys.err # "ok"
                   THEN [err |-> "InvalidPassword", ret |-> NoRet]
                   ELSE [err |-> "ok",
                         ret |-> [wallet |-> wallet[1], mnemonic |-> opened.data,
                                  keypair |-> keys.keypair]]

\* unlockWallet remembering the wallet it opened: a successful unlock makes
\* the wallet the active one.
UnlockWalletActivating(name, password) ==
  LET r == unlockWallet(walletFile, name, password)
      loaded == loadConfig(configFile, DEFAULT_CONFIG)
      config == [loaded.config EXCEPT !.activeWallet = name]
  IN  /\ last' = Outcome("unlockWallet", name, password, r.err, r.ret, 0, {})
      /\ configFile' = IF r.err = "ok" THEN saveConfig(config) ELSE configFile
      /\ UNCHANGED <<walletFile, DEFAULT_CONFIG, now, passwordOf, proc>>

UnlockWallet(name, password) ==
  LET r == unlockWallet(walletFile, name, password)
  IN  /\ last' = Outcome("unlockWallet", name, password, r.err, r.ret, 0, {})
      /\ UNCHANGED <<walletFile, configFile, DEFAULT_CONFIG, now, passwordOf, proc>>

DeleteWallet(name) ==
  LET wallets == loadWallets(walletFile).wallets
      index == findIndex(wallets, name)
      rest == splice(wallets, index)
      loaded == loadConfig(configFile, DEFAULT_CONFIG)
      config == [loaded.config EXCEPT !.activeWallet = nextActive(rest)]
  IN  \/ /\ index = 0
         /\ UNCHANGED proc
         /\ last' = Outcome("deleteWallet", name, NoArg, "NotFound", NoRet, 0, {})
         /\ UNCHANGED <<walletFile, configFile, DEFAULT_CONFIG, now, passwordOf>>
      \/ /\ index # 0
         /\ walletFile' = saveWallets(rest)
         /\ IF wasActive(loaded.config, name)
              THEN /\ configFile' = saveConfig(config)
                   /\ DEFAULT_CONFIG' = IF loaded.aliased THEN config ELSE DEFAULT_CONFIG
              ELSE UNCHANGED <<configFile, DEFAULT_CONFIG>>
         /\ passwordOf' = [passwordOf EXCEPT ![name] = NoPassword]
         /\ UNCHANGED proc
         /\ last' = Outcome("deleteWallet", name, NoArg, "ok", NoRet, 0,
                            IF wasActive(loaded.config, name)
                              THEN {"wallets", "config"} ELSE {"wallets"})
         /\ UNCHANGED now

\* setActiveWallet following the wallet it selects: the configuration takes
\* the network tag of the wallet made active.
SetActiveWalletSwitching(name) ==
  LET wallet == getWallet(walletFile, name)
      loaded == loadConfig(configFile, DEFAULT_CONFIG)
      config == IF wallet = None THEN loaded.config
                ELSE activate(loaded.config, name, wallet[1].network)
  IN  \/ /\ wallet = None
         /\ UNCHANGED proc
         /\ last' = Outcome("setActiveWallet", name, NoArg, "NotFound", NoRet, 0, {})
         /\ UNCHANGED <<walletFile, configFile, DEFAULT_CONFIG, now, passwordOf>>
      \/ /\ wallet # None
         /\ configFile' = saveConfig(config)
         /\ DEFAULT_CONFIG' = IF loaded.aliased THEN config ELSE DEFAULT_CONFIG
         /\ UNCHANGED proc
         /\ last' = Outcome("setActiveWallet", name, NoArg, "ok", NoRet, 0, {"config"})
         /\ UNCHANGED <<walletFile, now, passwordOf>>

SetActiveWallet(name) ==
  LET wallet == getWallet(walletFile, name)
      loaded == loadConfig(configFile, DEFAULT_CONFIG)
      config == [loaded.config EXCEPT !.activeWallet = name]
  IN  \/ /\ wallet = None
         /\ UNCHANGED proc
         /\ last' = Outcome("setActiveWallet", name, NoArg, "NotFound", NoRet, 0, {})
         /\ UNCHANGED <<walletFile, configFile, DEFAULT_CONFIG, now, passwordOf>>
      \/ /\ wallet # None
         /\ configFile' = saveConfig(config)
         /\ DEFAULT_CONFIG' = IF loaded.aliased THEN config ELSE DEFAULT_CONFIG
         /\ UNCHANGED proc
         /\ last' = Outcome("setActiveWallet", name, NoArg, "ok", NoRet, 0, {"config"})
         /\ UNCHANGED <<walletFile, now, passwordOf>>

\* The process exits and the program is started again: the files stay, the
\* module-level object is built anew.
Restart ==
  /\ DEFAULT_CONFIG' = DefaultConfig
  /\ UNCHANGED proc
  /\ last' = Outcome("none", Null, NoArg, "ok", NoRet, 0, {})
  /\ UNCHANGED <<walletFile, configFile, now, passwordOf>>

\* The store operations: every name and network and both entropies; wallets
\* are sealed with one password, salt and iv and opened with two passwords.
Next ==
  \/ \E name \in Names, network \in Networks, ent \in Entropies :
       CreateWallet(name, <<1>>, network, ent, 0, 0)
  \/ \E name \in Names, mnemonic \in ImportPhrases, network \in Networks :
       ImportWalletFromMnemonic(name, mnemonic, <<1>>, network, 0, 0)
  \/ \E name \in Names, password \in StorePasswords : UnlockWallet(name, password)
  \/ \E name \in Names : DeleteWallet(name)
  \/ \E name \in Names : SetActiveWallet(name)
  \/ Restart

Spec == Init /\ [][Next]_vars

----------------------------------------------------------------------------
(* Properties of the store operations. *)

CreateOps == {"createWallet", "importWalletFromMnemonic"}

\* The activeWallet of the persisted configuration (null without a file).
persistedActive ==
  IF existsSync(configFile) THEN configFile.data.activeWallet ELSE Null

\* The first record of wallets whose name is not name, or null.
FirstOther(wallets, name) ==
  LET others == {i \in 1..Len(wallets) : wallets[i].name # name}
  IN  IF others = {} THEN Null
      ELSE wallets[CHOOSE i \in others : \A j \in others : i <= j].name

\* C1: after any sequence of completed createWallet,
\* importWalletFromMnemonic, deleteWallet and setActiveWallet calls, a set
\* activeWallet of the persisted configuration names a record of the
\* persisted store.
C1_ActiveWalletStored ==
  persistedActive # Null =>
    \E i \in 1..Len(walletFile.data) : walletFile.data[i].name = persistedActive

\* C1 witness: the active wallet was deleted (deleteWallet wrote the
\* configuration) and another record is active now.
C1_Witness ==
  /\ last.op = "deleteWallet"
  /\ last.err = "ok"
  /\ "config" \in last.wrote
  /\ persistedActive # Null

\* C2: no two records of the persisted store have the same name.
C2_NamesUnique ==
  \A i, j \in 1..Len(walletFile.data) :
    i # j => walletFile.data[i].name # walletFile.data[j].name

\* C2 witness: a second record was stored by a successful create or import.
C2_Witness ==
  /\ last.op \in CreateOps
  /\ last.err = "ok"
  /\ Len(walletFile.data) = 2

\* C3: deleteWallet(name) of the active wallet sets the persisted
\* activeWallet to the first record remaining in the store, in store order,
\* or to none when the store becomes empty.
C3_DeleteReassigns ==
  [][(/\ last'.op = "deleteWallet"
      /\ last'.err = "ok"
      /\ walletFile' # walletFile
      /\ persistedActive = last'.name)
     => persistedActive' = FirstOther(walletFile.data, last'.name)]_vars

\* C3 witness: of two wallets the active one was deleted, and the other one
\* is active.
C3_Witness ==
  /\ last.op = "deleteWallet"
  /\ last.err = "ok"
  /\ "config" \in last.wrote
  /\ Len(walletFile.data) = 1
  /\ persistedActive = walletFile.data[1].name

\* C3 witness of the second case: the only wallet was deleted and no wallet
\* is active.
C3_WitnessEmpty ==
  /\ last.op = "deleteWallet"
  /\ last.err = "ok"
  /\ "config" \in last.wrote
  /\ Len(walletFile.data) = 0
  /\ persistedActive = Null

\* C6: createWallet or importWalletFromMnemonic with a name that is in the
\* store fails with the duplicate-name error and leaves the persisted store
\* and the persisted configuration unchanged.
C6_DuplicateRejected ==
  [][(/\ last'.op \in CreateOps
      /\ \E i \in 1..Len(walletFile.data) : walletFile.data[i].name = last'.name)
     => (/\ last'.err = "AlreadyExists"
         /\ walletFile' = walletFile
         /\ configFile' = configFile)]_vars

\* C6 witness: an import was refused for its name while another wallet is
\* active.
C6_Witness ==
  /\ last.op = "importWalletFromMnemonic"
  /\ last.err = "AlreadyExists"
  /\ Len(walletFile.data) = 2
  /\ persistedActive # last.name

C9_CreateActivates ==
  [][(/\ last'.op = "createWallet"
      /\ last'.err = "ok"
      /\ walletFile' # walletFile)
     => (/\ Len(walletFile'.data) = Len(walletFile.data) + 1
         /\ SubSeq(walletFile'.data, 1, Len(walletFile.data)) = walletFile.data
         /\ walletFile'.data[Len(walletFile'.data)].name = last'.name
         /\ last'.ret.mnemonic.words = 24
         /\ last'.ret.wallet.address = walletFile'.data[Len(walletFile'.data)].address
         /\ configFile'.data.activeWallet = last'.name
         /\ configFile'.data.network = walletFile'.data[Len(walletFile'.data)].network
         /\ \E i \in 1..Len(walletFile'.data) :
              listWallets(walletFile')[i].name = last'.name
         /\ getActiveWallet(walletFile', configFile', DEFAULT_CONFIG')
              = Some(walletFile'.data[Len(walletFile'.data)]))]_vars

\* C10: setActiveWallet(name) fails with the not-found error when name is
\* not in the store, changing neither file; otherwise it sets the persisted
\* activeWallet to name and leaves the store unchanged.
C10_SetActive ==
  [][(last'.op = "setActiveWallet")
     => IF \E i \in 1..Len(walletFile.data) : walletFile.data[i].name = last'.name
          THEN /\ last'.err = "ok"
               /\ persistedActive' = last'.name
               /\ walletFile' = walletFile
          ELSE /\ last'.err = "NotFound"
               /\ walletFile' = walletFile
               /\ configFile' = configFile]_vars

\* C10 witness: setActiveWallet made the first of two wallets active.
C10_Witness ==
  /\ last.op = "setActiveWallet"
  /\ last.err = "ok"
  /\ Len(walletFile.data) = 2
  /\ persistedActive = walletFile.data[1].name

\* C10 witness of the failure: setActiveWallet refused a name that is not
\* in the store, with another wallet active.
C10_WitnessNotFound ==
  /\ last.op = "setActiveWallet"
  /\ last.err = "NotFound"
  /\ persistedActive # Null

----------------------------------------------------------------------------
(* Sealing and opening: one wallet name, every password, salt and iv. *)

SealNames == {"a"}
SealPhrases == {Phrase(12, 1), BadChecksum(12, 1)}

NextSeal ==
  \/ \E name \in SealNames, password \in Passwords, salt \in Salts, iv \in IVs :
       CreateWallet(name, password, "mainnet", 0, salt, iv)
  \/ \E name \in SealNames, mnemonic \in SealPhrases, password \in Passwords,
        salt \in Salts, iv \in IVs :
       ImportWalletFromMnemonic(name, mnemonic, password, "devnet", salt, iv)
  \/ \E name \in SealNames \cup {"b"}, password \in Passwords :
       UnlockWallet(name, password)
  \/ \E name \in SealNames : DeleteWallet(name)

SpecSeal == Init /\ [][NextSeal]_vars

\* C4: for every wallet stored with password P, unlockWallet(name, P2)
\* fails with the authentication error for every P2 different from P;
\* unlockWallet(name, P) returns the original phrase and a keypair whose
\* address is the stored address; unlockWallet of a name that is not in the
\* store fails with the not-found error.
C4_UnlockOnlyWithPassword ==
  last.op = "unlockWallet" =>
    LET stored == {i \in 1..Len(walletFile.data) : walletFile.data[i].name = last.name}
    IN  IF stored = {} THEN last.err = "NotFound"
        ELSE IF last.arg # passwordOf[last.name] THEN last.err = "InvalidPassword"
        ELSE /\ last.err = "ok"
             /\ \A i \in stored :
                  /\ importWallet(last.ret.mnemonic).address = walletFile.data[i].address
                  /\ publicKeyToAddress(last.ret.keypair.publicKey)
                       = walletFile.data[i].address

----------------------------------------------------------------------------
(* Key derivation from a phrase: every phrase of 1..MaxWords words. *)

PhraseSpace ==
  [words : 1..MaxWords, listed : BOOLEAN, ent : Entropies, ck : {0, 1}]

DeriveKeypairFromMnemonic(mnemonic) ==
  LET r == deriveKeypairFromMnemonic(mnemonic)
  IN  /\ last' = Outcome("deriveKeypairFromMnemonic", Null, mnemonic, r.err,
                         IF r.err = "ok" THEN r.keypair ELSE NoRet, 0, {})
      /\ UNCHANGED <<walletFile, configFile, DEFAULT_CONFIG, now, passwordOf, proc>>

ImportWallet(mnemonic) ==
  LET r == importWallet(mnemonic)
  IN  /\ last' = Outcome("importWallet", Null, mnemonic, r.err,
                         IF r.err = "ok" THEN r.keypair ELSE NoRet, 0, {})
      /\ UNCHANGED <<walletFile, configFile, DEFAULT_CONFIG, now, passwordOf, proc>>

NextKeys ==
  \/ \E mnemonic \in PhraseSpace : DeriveKeypairFromMnemonic(mnemonic)
  \/ \E mnemonic \in PhraseSpace : ImportWallet(mnemonic)
  \/ \E mnemonic \in PhraseSpace :
       ImportWalletFromMnemonic("a", mnemonic, <<1>>, "mainnet", 0, 0)

SpecKeys == Init /\ [][NextKeys]_vars

KeyOps == {"deriveKeypairFromMnemonic", "importWallet", "importWalletFromMnemonic"}

\* C8: key derivation from a phrase (deriveKeypairFromMnemonic, importWallet
\* and importWalletFromMnemonic) fails with the invalid-phrase error for
\* every phrase whose word count is not 12 or 24 or whose checksum is
\* invalid, and accepts every checksum-valid phrase of 12 or 24 words.
C8_TwelveOrTwentyFourWords ==
  (last.op \in KeyOps /\ last.err # "AlreadyExists") =>
    IF /\ last.arg.words \in {12, 24}
       /\ last.arg.listed
       /\ last.arg.ck = Checksum(last.arg.ent)
      THEN last.err = "ok"
      ELSE last.err = "InvalidMnemonic"

----------------------------------------------------------------------------
(* The calls of wallet.ts step by step: one step for each access to a file, *)
(* taken by either of two processes, which may be killed at any step.      *)
(* fs.writeFileSync opens the file with O_TRUNC and then writes the text.  *)

IONames == {"a", "b"}

\* The call of process p returns or throws: its locals are dropped.
Return(p, dflt, op, name, err, ret, wrote) ==
  /\ proc' = [proc EXCEPT ![p] =
                [IdleProc EXCEPT
                   !.dflt = dflt,
                   !.done = IF op \in {"createWallet", "deleteWallet"} /\ err = "ok"
                              THEN <<op, name>> ELSE proc[p].done]]
  /\ last' = Outcome(op, name, NoArg, err, ret, 0, wrote)

\* createWallet up to wallets.push(storedWallet).
CreateWalletCall(p, name, network) ==
  LET loaded == loadWallets(walletFile)
      keys == generateWallet(0)
      storedWallet ==
        StoredWallet(name, keys.address, encrypt(keys.mnemonic, <<1>>, 0, 0), now, network)
  IN  /\ proc[p].pc = "idle"
      /\ \/ /\ loaded.err # "ok"
            /\ Return(p, proc[p].dflt, "createWallet", name, loaded.err, NoRet, {})
            /\ UNCHANGED now
         \/ /\ loaded.err = "ok"
            /\ nameTaken(loaded.wallets, name)
            /\ Return(p, proc[p].dflt, "createWallet", name, "AlreadyExists", NoRet, {})
            /\ UNCHANGED now
         \/ /\ loaded.err = "ok"
            /\ ~nameTaken(loaded.wallets, name)
            /\ now < MaxClock
            /\ now' = now + 1
            /\ proc' = [proc EXCEPT ![p] =
                          [@ EXCEPT !.pc = "saveWallets", !.op = "createWallet",
                                    !.name = name,
                                    !.wallets = push(loaded.wallets, storedWallet)]]
            /\ UNCHANGED last
      /\ UNCHANGED <<walletFile, configFile, DEFAULT_CONFIG, passwordOf>>

\* deleteWallet up to wallets.splice(index, 1).
DeleteWalletCall(p, name) ==
  LET loaded == loadWallets(walletFile)
      index == findIndex(loaded.wallets, name)
  IN  /\ proc[p].pc = "idle"
      /\ \/ /\ loaded.err # "ok"
            /\ Return(p, proc[p].dflt, "deleteWallet", name, loaded.err, NoRet, {})
         \/ /\ loaded.err = "ok"
            /\ index = 0
            /\ Return(p, proc[p].dflt, "deleteWallet", name, "NotFound", NoRet, {})
         \/ /\ loaded.err = "ok"
            /\ index # 0
            /\ proc' = [proc EXCEPT ![p] =
                          [@ EXCEPT !.pc = "saveWallets", !.op = "deleteWallet",
                                    !.name = name,
                                    !.wallets = splice(loaded.wallets, index)]]
            /\ UNCHANGED last
      /\ UNCHANGED <<walletFile, configFile, DEFAULT_CONFIG, now, passwordOf>>

\* saveWallets: fs.writeFileSync opens wallets.enc and truncates it.
SaveWalletsOpen(p) ==
  /\ proc[p].pc = "saveWallets"
  /\ walletFile' = [st |-> "empty", data |-> NoWallets]
  /\ proc' = [proc EXCEPT ![p] =
                [@ EXCEPT !.pc = "saveWallets.write", !.wrote = @ \cup {"wallets"}]]
  /\ UNCHANGED <<configFile, DEFAULT_CONFIG, now, passwordOf, last>>

\* saveWallets: the text reaches the file, in one write or in several.
SaveWalletsWrite(p) ==
  /\ proc[p].pc = "saveWallets.write"
  /\ \/ /\ walletFile.st = "empty"
        /\ walletFile' = [st |-> "partial", data |-> NoWallets]
        /\ UNCHANGED <<proc, passwordOf>>
     \/ /\ walletFile' = saveWallets(proc[p].wallets)
        /\ passwordOf' = [n \in Names |->
                            IF some(proc[p].wallets, n) THEN <<1>> ELSE NoPassword]
        /\ proc' = [proc EXCEPT ![p] = [@ EXCEPT !.pc = "loadConfig"]]
  /\ UNCHANGED <<configFile, DEFAULT_CONFIG, now, last>>

\* loadConfig and the assignments to the object it returned.
LoadConfigStep(p) ==
  LET loaded == loadConfig(configFile, proc[p].dflt)
      me == proc[p]
      created == me.wallets[Len(me.wallets)]
      config == IF me.op \in CreateOps
                  THEN activate(loaded.config, me.name, created.network)
                  ELSE [loaded.config EXCEPT !.activeWallet = nextActive(me.wallets)]
  IN  /\ me.pc = "loadConfig"
      /\ \/ /\ loaded.err # "ok"
            /\ Return(p, me.dflt, me.op, me.name, loaded.err, NoRet, me.wrote)
         \/ /\ loaded.err = "ok"
            /\ me.op = "deleteWallet"
            /\ ~wasActive(loaded.config, me.name)
            /\ Return(p, me.dflt, me.op, me.name, "ok", NoRet, me.wrote)
         \/ /\ loaded.err = "ok"
            /\ me.op \in CreateOps \/ wasActive(loaded.config, me.name)
            /\ proc' = [proc EXCEPT ![p] =
                          [@ EXCEPT !.pc = "saveConfig", !.config = config,
                                    !.dflt = IF loaded.aliased THEN config ELSE @]]
            /\ UNCHANGED last
      /\ UNCHANGED <<walletFile, configFile, DEFAULT_CONFIG, now, passwordOf>>

\* saveConfig: fs.writeFileSync opens config.json and truncates it.
SaveConfigOpen(p) ==
  /\ proc[p].pc = "saveConfig"
  /\ configFile' = [st |-> "empty", data |-> NoConfig]
  /\ proc' = [proc EXCEPT ![p] =
                [@ EXCEPT !.pc = "saveConfig.write", !.wrote = @ \cup {"config"}]]
  /\ UNCHANGED <<walletFile, DEFAULT_CONFIG, now, passwordOf, last>>

\* saveConfig: the text reaches the file; the call returns.
SaveConfigWrite(p) ==
  /\ proc[p].pc = "saveConfig.write"
  /\ \/ /\ configFile.st = "empty"
        /\ configFile' = [st |-> "partial", data |-> NoConfig]
        /\ UNCHANGED <<proc, last>>
     \/ /\ configFile' = saveConfig(proc[p].config)
        /\ Return(p, proc[p].dflt, proc[p].op, proc[p].name, "ok", NoRet, proc[p].wrote)
  /\ UNCHANGED <<walletFile, DEFAULT_CONFIG, now, passwordOf>>

\* listWallets(), a reader of wallets.enc.
ListWalletsCall(p) ==
  LET loaded == loadWallets(walletFile)
  IN  /\ proc[p].pc = "idle"
      /\ Return(p, proc[p].dflt, "listWallets", Null, loaded.err,
                IF loaded.err = "ok" THEN listWallets(walletFile) ELSE NoRet, {})
      /\ UNCHANGED <<walletFile, configFile, DEFAULT_CONFIG, now, passwordOf>>

\* loadConfig(), a reader of config.json.
LoadConfigCall(p) ==
  LET loaded == loadConfig(configFile, proc[p].dflt)
  IN  /\ proc[p].pc = "idle"
      /\ Return(p, proc[p].dflt, "loadConfig", Null, loaded.err,
                IF loaded.err = "ok" THEN loaded.config ELSE NoRet, {})
      /\ UNCHANGED <<walletFile, configFile, DEFAULT_CONFIG, now, passwordOf>>

\* The process is killed (or exits); the program is started again.
Kill(p) ==
  /\ proc[p] # IdleProc
  /\ proc' = [proc EXCEPT ![p] = IdleProc]
  /\ UNCHANGED <<walletFile, configFile, DEFAULT_CONFIG, now, passwordOf, last>>

NextIO ==
  \/ \E p \in Procs, name \in IONames : CreateWalletCall(p, name, "devnet")
  \/ \E p \in Procs, name \in IONames : DeleteWalletCall(p, name)
  \/ \E p \in Procs : SaveWalletsOpen(p)
  \/ \E p \in Procs : SaveWalletsWrite(p)
  \/ \E p \in Procs : LoadConfigStep(p)
  \/ \E p \in Procs : SaveConfigOpen(p)
  \/ \E p \in Procs : SaveConfigWrite(p)
  \/ \E p \in Procs : ListWalletsCall(p)
  \/ \E p \in Procs : LoadConfigCall(p)
  \/ \E p \in Procs : Kill(p)

SpecIO == Init /\ [][NextIO]_vars

\* C5: saving the store or the configuration replaces the file atomically:
\* a concurrent reader, or a process started after a kill during the write,
\* finds the complete old or the complete new contents, never an empty or a
\* partially written file.
C5_AtomicReplace ==
  /\ last.op \in {"listWallets", "loadConfig"} => last.err = "ok"
  /\ walletFile.st \in {"absent", "ok"}
  /\ configFile.st \in {"absent", "ok"}

----------------------------------------------------------------------------
(* Further properties of the store operations. *)

\* C11: deleteWallet(name) for a name that is not in the store fails with
\* the not-found error and leaves the persisted store and the persisted
\* configuration (the active wallet with it) unchanged.
C11_DeleteUnknown ==
  [][(/\ last'.op = "deleteWallet"
      /\ ~\E i \in 1..Len(walletFile.data) : walletFile.data[i].name = last'.name)
     => (/\ last'.err = "NotFound"
         /\ walletFile' = walletFile
         /\ configFile' = configFile)]_vars

\* C11 witness: with two wallets stored and the second one active, the
\* deletion of a third name was refused.
C11_Witness ==
  /\ last.op = "deleteWallet"
  /\ last.err = "NotFound"
  /\ Len(walletFile.data) = 2
  /\ persistedActive = walletFile.data[2].name

----------------------------------------------------------------------------
(* Reading the store and the configuration; the configuration object in    *)
(* the hands of its callers; config.json edited or removed from outside.   *)

\* process.env.TETSUO_GROK_API_KEY, and the key a caller assigns.
ApiKeys == {"x"}

GetWallet(name) ==
  /\ last' = Outcome("getWallet", name, NoArg, "ok", getWallet(walletFile, name), 0, {})
  /\ UNCHANGED <<walletFile, configFile, DEFAULT_CONFIG, now, passwordOf, proc>>

GetActiveWallet ==
  /\ last' = Outcome("getActiveWallet", Null, NoArg, "ok",
                     getActiveWallet(walletFile, configFile, DEFAULT_CONFIG), 0, {})
  /\ UNCHANGED <<walletFile, configFile, DEFAULT_CONFIG, now, passwordOf, proc>>

ListWallets ==
  /\ last' = Outcome("listWallets", Null, NoArg, "ok", listWallets(walletFile), 0, {})
  /\ UNCHANGED <<walletFile, configFile, DEFAULT_CONFIG, now, passwordOf, proc>>

LoadConfig ==
  /\ last' = Outcome("loadConfig", Null, NoArg, "ok",
                     loadConfig(configFile, DEFAULT_CONFIG).config, 0, {})
  /\ UNCHANGED <<walletFile, configFile, DEFAULT_CONFIG, now, passwordOf, proc>>

\* A caller of the exported functions: config = loadConfig();
\* config.grokApiKey = grokApiKey; saveConfig(config).
SaveConfig(grokApiKey) ==
  LET loaded == loadConfig(configFile, DEFAULT_CONFIG)
      config == spread(loaded.config, [grokApiKey |-> grokApiKey])
  IN  /\ configFile' = saveConfig(config)
      /\ DEFAULT_CONFIG' = IF loaded.aliased THEN config ELSE DEFAULT_CONFIG
      /\ last' = Outcome("saveConfig", Null, config, "ok", NoRet, 0, {"config"})
      /\ UNCHANGED <<walletFile, now, passwordOf, proc>>

\* The program is started with TETSUO_GROK_API_KEY set: the module-level
\* object is built anew, then config = loadConfig();
\* config.grokApiKey = grokApiKey, and nothing is saved.
Main(grokApiKey) ==
  LET loaded == loadConfig(configFile, DefaultConfig)
      config == spread(loaded.config, [grokApiKey |-> grokApiKey])
  IN  /\ DEFAULT_CONFIG' = IF loaded.aliased THEN config ELSE DefaultConfig
      /\ last' = Outcome("main", Null, grokApiKey, "ok", NoRet, 0, {})
      /\ UNCHANGED <<walletFile, configFile, now, passwordOf, proc>>

\* config.json is edited by hand: activeWallet names a wallet of the
\* editor's choice.
EditConfig(name) ==
  /\ configFile' = [st |-> "ok", data |-> [DefaultConfig EXCEPT !.activeWallet = name]]
  /\ last' = Outcome("none", Null, NoArg, "ok", NoRet, 0, {})
  /\ UNCHANGED <<walletFile, DEFAULT_CONFIG, now, passwordOf, proc>>

\* config.json is removed by hand.
RemoveConfig ==
  /\ existsSync(configFile)
  /\ configFile' = AbsentConfigFile
  /\ last' = Outcome("none", Null, NoArg, "ok", NoRet, 0, {})
  /\ UNCHANGED <<walletFile, DEFAULT_CONFIG, now, passwordOf, proc>>

\* The names handed to the operations; config.json is edited to any name.
ConfigNames == {"", "a"}

NextConfig ==
  \/ \E name \in ConfigNames : CreateWallet(name, <<1>>, "devnet", 0, 0, 0)
  \/ \E mnemonic \in ImportPhrases :
       ImportWalletFromMnemonic("a", mnemonic, <<1>>, "devnet", 0, 0)
  \/ \E name \in ConfigNames, password \in StorePasswords : UnlockWallet(name, password)
  \/ \E name \in ConfigNames : DeleteWallet(name)
  \/ \E name \in ConfigNames : SetActiveWallet(name)
  \/ \E name \in ConfigNames : GetWallet(name)
  \/ GetActiveWallet
  \/ ListWallets
  \/ LoadConfig
  \/ \E grokApiKey \in ApiKeys : SaveConfig(grokApiKey)
  \/ \E grokApiKey \in ApiKeys : Main(grokApiKey)
  \/ \E name \in Names : EditConfig(name)
  \/ RemoveConfig
  \/ Restart

SpecConfig == Init /\ [][NextConfig]_vars

\* The activeWallet of the configuration the program reads.
configuredActive == loadConfig(configFile, DEFAULT_CONFIG).config.activeWallet

\* C12: getActiveWallet returns absent, without failing, whenever the
\* configuration has no active wallet or names a wallet that is not in the
\* store; otherwise it returns the store record with that name.
C12_ActiveOrAbsent ==
  last.op = "getActiveWallet" =>
    /\ last.err = "ok"
    /\ last.ret =
         IF \/ configuredActive = Null
            \/ ~\E i \in 1..Len(walletFile.data) :
                  walletFile.data[i].name = configuredActive
           THEN None
           ELSE Some(walletFile.data[CHOOSE i \in 1..Len(walletFile.data) :
                                       walletFile.data[i].name = configuredActive])

ReadOps == {"unlockWallet", "listWallets", "getWallet", "getActiveWallet"}

\* C13: unlockWallet, whether it succeeds or fails, and listWallets,
\* getWallet and getActiveWallet write nothing: the persisted store, the
\* persisted configuration and the configuration object of the process
\* are the same before and after, and so is the result of every read and
\* every unlock made afterwards.
C13_ReadsWriteNothing ==
  [][(last'.op \in ReadOps)
     => (/\ walletFile' = walletFile
         /\ configFile' = configFile
         /\ DEFAULT_CONFIG' = DEFAULT_CONFIG
         /\ last'.wrote = {}
         /\ listWallets(walletFile') = listWallets(walletFile)
         /\ getActiveWallet(walletFile', configFile', DEFAULT_CONFIG')
              = getActiveWallet(walletFile, configFile, DEFAULT_CONFIG)
         /\ \A name \in Names, password \in StorePasswords :
              unlockWallet(walletFile', name, password)
                = unlockWallet(walletFile, name, password))]_vars

\* C13 witness: a wallet that is not the active one was unlocked with its
\* password.
C13_Witness ==
  /\ last.op = "unlockWallet"
  /\ last.err = "ok"
  /\ Len(walletFile.data) = 2
  /\ persistedActive # last.name

\* C13 witness of the failure: an unlock was refused for its password.
C13_WitnessRefused ==
  /\ last.op = "unlockWallet"
  /\ last.err = "InvalidPassword"
  /\ persistedActive # Null

\* C14: the persisted configuration never has the API-key field, whatever
\* configuration saveConfig was called with.
C14_NoApiKeyOnDisk ==
  existsSync(configFile) => "grokApiKey" \notin DOMAIN configFile.data

\* C14 witness: saveConfig was called by a caller with a configuration whose
\* API key is set, and wrote the file.
C14_Witness ==
  /\ last.op = "saveConfig"
  /\ "grokApiKey" \in DOMAIN last.arg
  /\ last.arg.grokApiKey \in ApiKeys
  /\ configFile.st = "ok"

\* C14 witness of the second way: createWallet saved the configuration
\* object that carries the key taken from the environment.
C14_WitnessCreate ==
  /\ last.op = "createWallet"
  /\ last.err = "ok"
  /\ "grokApiKey" \in DOMAIN DEFAULT_CONFIG
  /\ DEFAULT_CONFIG.activeWallet = last.name
  /\ configFile.st = "ok"

\* C15: whenever no configuration file exists, loadConfig returns the full
\* default record (no active wallet, mainnet, the mainnet public RPC
\* address), whatever was done before in the process with the objects
\* loadConfig returned.
C15_DefaultsWithoutFile ==
  (last.op = "loadConfig" /\ ~existsSync(configFile)) => last.ret = DefaultConfig

\* C16: a wallet record is read-only between its creation and its deletion:
\* no createWallet, importWalletFromMnemonic, deleteWallet, setActiveWallet
\* or unlockWallet changes the address, the encrypted envelope, the creation
\* timestamp or the network of a record that stays in the store.
C16_RecordsReadOnly ==
  [][\A i \in 1..Len(walletFile.data), j \in 1..Len(walletFile'.data) :
       walletFile.data[i].name = walletFile'.data[j].name
         => walletFile.data[i] = walletFile'.data[j]]_vars

\* C16 witness: a second wallet was stored on another network, later than
\* the first one, which is still in the store.
C16_Witness ==
  /\ last.op \in CreateOps
  /\ last.err = "ok"
  /\ Len(walletFile.data) = 2
  /\ walletFile.data[1].createdAt < walletFile.data[2].createdAt
  /\ walletFile.data[1].network # walletFile.data[2].network

\* C16 witness of the deletion of another wallet: the second of two wallets
\* was deleted and the first one is still in the store.
C16_WitnessDelete ==
  /\ last.op = "deleteWallet"
  /\ last.err = "ok"
  /\ Len(walletFile.data) = 1
  /\ walletFile.data[1].createdAt = 0
  /\ now = 2

----------------------------------------------------------------------------
(* Two processes on one store: process p1 creates and deletes wallet "a",  *)
(* process p2 wallet "b", their load / mutate / save steps interleaved.    *)

RaceName == [p \in Procs |-> IF p = "p1" THEN "a" ELSE "b"]

NextRace ==
  \/ \E p \in Procs : CreateWalletCall(p, RaceName[p], "devnet")
  \/ \E p \in Procs : DeleteWalletCall(p, RaceName[p])
  \/ \E p \in Procs : SaveWalletsOpen(p)
  \/ \E p \in Procs : SaveWalletsWrite(p)
  \/ \E p \in Procs : LoadConfigStep(p)
  \/ \E p \in Procs : SaveConfigOpen(p)
  \/ \E p \in Procs : SaveConfigWrite(p)

SpecRace == Init /\ [][NextRace]_vars

\* C17: the last writer wins: when a process completes saveWallets, the
\* persisted store is the list that process loaded and changed, whatever
\* the other process has written since that load; so an update can be lost.
C17_LastWriterWins ==
  [][\A p \in Procs :
       (proc[p].pc = "saveWallets.write" /\ proc'[p].pc = "loadConfig")
         => (/\ walletFile'.st = "ok"
             /\ walletFile'.data = proc[p].wallets)]_vars

\* C17 witness: createWallet("a") returned without an error in p1 and
\* createWallet("b") in p2, no call is under way, nothing was deleted since,
\* and the persisted store holds one record only.
C17_Witness ==
  /\ proc["p1"] = [IdleProc EXCEPT !.dflt = proc["p1"].dflt, !.done = <<"createWallet", "a">>]
  /\ proc["p2"] = [IdleProc EXCEPT !.dflt = proc["p2"].dflt, !.done = <<"createWallet", "b">>]
  /\ walletFile.st = "ok"
  /\ Len(walletFile.data) = 1

\* C17 witness for deleteWallet: both wallets were stored, deleteWallet("a")
\* returned without an error in p1 and deleteWallet("b") in p2, and the
\* persisted store still holds one of the two.
C17_WitnessDelete ==
  /\ proc["p1"] = [IdleProc EXCEPT !.dflt = proc["p1"].dflt, !.done = <<"deleteWallet", "a">>]
  /\ proc["p2"] = [IdleProc EXCEPT !.dflt = proc["p2"].dflt, !.done = <<"deleteWallet", "b">>]
  /\ walletFile.st = "ok"
  /\ Len(walletFile.data) = 1

----------------------------------------------------------------------------
(* The envelope cipher by itself: encrypt, the envelope damaged in         *)
(* storage, decrypt.                                                       *)

\* Plaintexts: every string of at most MaxText code units.
MaxText == 2
CodeUnits == {"w", "hi", "lo"}
Plaintexts ==
  {String(units) : units \in UNION {[1..n -> CodeUnits] : n \in 0..MaxText}}

\* What can happen to the stored text of an envelope.
Damages == {"truncated", "tagRemoved", "ciphertext", "authTag", "salt"}

damaged(envelope, damage) ==
  CASE damage = "truncated"  -> Truncated(envelope)
    [] damage = "tagRemoved" ->
         [f \in DOMAIN envelope \ {"authTag"} |-> envelope[f]]
    [] damage = "ciphertext" ->
         [envelope EXCEPT !.encrypted = toHex([fromHex(@) EXCEPT !.pt = [corrupted |-> @]])]
    [] damage = "authTag"    ->
         [envelope EXCEPT !.authTag = toHex([fromHex(@) EXCEPT !.ct = [corrupted |-> @]])]
    [] damage = "salt"       ->
         [envelope EXCEPT !.salt = toHex(1 - fromHex(@))]

Undamaged == "none"

\* encrypt(data, password); salt and iv are what the two randomBytes calls
\* draw.
Encrypt(data, password, salt, iv) ==
  /\ last' = Outcome("encrypt", Undamaged, [data |-> data, password |-> password],
                     "ok", encrypt(data, password, salt, iv), 1, {})
  /\ UNCHANGED <<walletFile, configFile, DEFAULT_CONFIG, now, passwordOf, proc>>

\* The text encrypt returned is damaged before it is handed to decrypt.
Damage(damage) ==
  /\ last.op = "encrypt"
  /\ last' = [last EXCEPT !.op = "damage", !.name = damage,
                          !.ret = damaged(last.ret, damage), !.enc = 0]
  /\ UNCHANGED <<walletFile, configFile, DEFAULT_CONFIG, now, passwordOf, proc>>

\* decrypt(encryptedData, password) of the text at hand.
Decrypt(password) ==
  LET r == decrypt(last.ret, password)
  IN  /\ last.op \in {"encrypt", "damage"}
      /\ last' = Outcome("decrypt", last.name,
                         [data |-> last.arg.data, password |-> last.arg.password,
                          opened |-> password],
                         r.err, r.data, 0, {})
      /\ UNCHANGED <<walletFile, configFile, DEFAULT_CONFIG, now, passwordOf, proc>>

NextCipher ==
  \/ \E data \in Plaintexts, password \in Passwords, salt \in Salts, iv \in IVs :
       Encrypt(data, password, salt, iv)
  \/ \E damage \in Damages : Damage(damage)
  \/ \E password \in Passwords : Decrypt(password)

SpecCipher == Init /\ [][NextCipher]_vars

AuthenticationError == "Unsupported state or unable to authenticate data"

\* C18: for all passwords P and plaintexts T, decrypt(encrypt(T, P), P)
\* returns T.
C18_RoundTrip ==
  (/\ last.op = "decrypt"
   /\ last.name = Undamaged
   /\ last.arg.opened = last.arg.password)
    => (last.err = "ok" /\ last.ret = last.arg.data)

\* C19: for all plaintexts T and all passwords P1 and P2 different from P1,
\* decrypt(encrypt(T, P1), P2) fails with the authentication error and
\* returns no plaintext.
C19_OtherPasswordFails ==
  (/\ last.op = "decrypt"
   /\ last.name = Undamaged
   /\ last.arg.opened # last.arg.password)
    => (last.err = AuthenticationError /\ last.ret = Null)

\* C20: decrypt fails with one and the same failure whether the password is
\* wrong, the ciphertext or the tag is corrupted, or the envelope is
\* truncated or malformed.
C20_OneFailure ==
  (last.op = "decrypt" /\ last.err # "ok") => last.err = AuthenticationError

----------------------------------------------------------------------------
(* A phrase and its keys: wallet "a" is created, the phrase createWallet   *)
(* returns is imported as wallet "b" with any password, on another         *)
(* network; both are unlocked.                                             *)

PhraseNames == {"a", "b"}

\* The phrases createWallet returns, and one with a wrong checksum.
ReturnedPhrases ==
  {generateMnemonic(256, ent) : ent \in Entropies} \cup {BadChecksum(24, 0)}

NextPhrase ==
  \/ \E password \in Passwords, ent \in Entropies :
       CreateWallet("a", password, "mainnet", ent, 0, 0)
  \/ \E mnemonic \in ReturnedPhrases, password \in Passwords, salt \in Salts :
       ImportWalletFromMnemonic("b", mnemonic, password, "devnet", salt, 1)
  \/ \E name \in PhraseNames, password \in Passwords : UnlockWallet(name, password)
  \/ \E name \in PhraseNames : DeleteWallet(name)

SpecPhrase == Init /\ [][NextPhrase]_vars

\* The phrase sealed in a record.
sealedPhrase(wallet) == utf8Decode(fromHex(wallet.encryptedMnemonic.encrypted).pt)

\* C21: key derivation is deterministic: two records that seal the same
\* phrase, whatever their names, passwords and networks, have the same
\* address, which is the address of the keypair derived from the phrase; and
\* every successful unlock of a wallet returns that keypair.
C21_SamePhraseSameKeys ==
  /\ \A i, j \in 1..Len(walletFile.data) :
       sealedPhrase(walletFile.data[i]) = sealedPhrase(walletFile.data[j])
         => walletFile.data[i].address = walletFile.data[j].address
  /\ \A i \in 1..Len(walletFile.data) :
       walletFile.data[i].address
         = publicKeyToAddress(
             deriveKeypairFromMnemonic(sealedPhrase(walletFile.data[i])).keypair.publicKey)
  /\ (last.op = "unlockWallet" /\ last.err = "ok") =>
       \A i \in 1..Len(walletFile.data) :
         walletFile.data[i].name = last.name =>
           /\ last.ret.keypair
                = deriveKeypairFromMnemonic(sealedPhrase(walletFile.data[i])).keypair
           /\ publicKeyToAddress(last.ret.keypair.publicKey) = walletFile.data[i].address

\* C21 witness: the phrase createWallet returned for "a" was imported as
\* "b" with another password on another network, and "b" has the address
\* of "a".
C21_Witness ==
  /\ last.op = "importWalletFromMnemonic"
  /\ last.err = "ok"
  /\ Len(walletFile.data) = 2
  /\ walletFile.data[1].name = "a"
  /\ walletFile.data[2].name = "b"
  /\ sealedPhrase(walletFile.data[1]) = last.arg
  /\ passwordOf["a"] # passwordOf["b"]
  /\ walletFile.data[1].network # walletFile.data[2].network
  /\ walletFile.data[1].address = walletFile.data[2].address

\* C21 witness of the unlock: the imported wallet was unlocked and the
\* keypair returned has the address of the wallet created first.
C21_WitnessUnlock ==
  /\ last.op = "unlockWallet"
  /\ last.err = "ok"
  /\ last.name = "b"
  /\ Len(walletFile.data) = 2
  /\ publicKeyToAddress(last.ret.keypair.publicKey) = walletFile.data[1].address

----------------------------------------------------------------------------
(* listWallets. *)

\* C22: listWallets returns one entry for each record of the persisted
\* store, in store order, and an entry holds the name, the address and the
\* network of its record and nothing else: no envelope, phrase or key.
C22_ListIsProjection ==
  last.op = "listWallets" =>
    /\ Len(last.ret) = Len(walletFile.data)
    /\ \A i \in 1..Len(last.ret) :
         /\ DOMAIN last.ret[i] = {"name", "address", "network"}
         /\ last.ret[i].name = walletFile.data[i].name
         /\ last.ret[i].address = walletFile.data[i].address
         /\ last.ret[i].network = walletFile.data[i].network

\* C22 witness: two wallets are stored, the older one on another network
\* than the newer one, and listWallets has returned.
C22_Witness ==
  /\ last.op = "listWallets"
  /\ Len(last.ret) = 2
  /\ walletFile.data[1].createdAt < walletFile.data[2].createdAt
  /\ last.ret[1].name # last.ret[2].name

----------------------------------------------------------------------------
(* cli.ts : the /send command.  One step for each stretch of the handler   *)
(* between two awaits; the process running the prompt is Cli.              *)

Cli == "p1"

\* Texts typed as the amount: an optional sign, digits or none, and
\* possibly other characters after them.
AmountTexts == [neg : BOOLEAN, digits : {<<>>, <<0>>, <<5>>}, tail : BOOLEAN]

\* parseFloat(text): the number at the head of the text, NaN without one.
NaN == [nan |-> TRUE, value |-> 0]
parseFloat(text) ==
  IF text.digits = <<>> THEN NaN
  ELSE [nan |-> FALSE, value |-> IF text.neg THEN 0 - text.digits[1] ELSE text.digits[1]]

isNaN(number) == number.nan

\* The amount check passing whatever was typed.
amountRejectedNever(amount) == FALSE

\* isNaN(amount) || amount <= 0
amountRejected(amount) == isNaN(amount) \/ amount.value <= 0

\* Texts typed as the recipient: base58 or not, and the bytes they decode to.
AddressTexts == [base58 : BOOLEAN, bytes : {31, 32}]

\* SolanaClient.isValidAddress: new PublicKey(address) does not throw.
isValidAddress(address) == address.base58 /\ address.bytes = 32

\* Answers to 'Confirm? (y/N): '.
ConfirmTexts ==
  {<<>>, <<"y">>, <<"Y">>, <<"n">>, <<"y", "e">>, <<"y", "e", "s">>, <<"Y", "E", "S">>,
   <<"Y", "e", "s">>}

toLowerCase(text) ==
  [i \in 1..Len(text) |->
     CASE text[i] = "Y" -> "y" [] text[i] = "E" -> "e" [] text[i] = "S" -> "s"
       [] OTHER -> text[i]]

\* confirm.toLowerCase() !== 'y' && confirm.toLowerCase() !== 'yes'
notConfirmed(confirm) ==
  toLowerCase(confirm) # <<"y">> /\ toLowerCase(confirm) # <<"y", "e", "s">>

\* The locals of the handler, what it has done so far (asked: the password
\* prompt; unlocked: unlockWallet returned; submitted: sendTetsuo called),
\* and the memory that holds the secret key and the phrase unlockWallet
\* returned: "none", "held" or "wiped".
NoText == <<>>

SendLocals ==
  [pc |-> "send", op |-> "send", wallet |-> None, amount |-> NaN, toAddress |-> NoText,
   confirm |-> NoText, asked |-> FALSE, unlocked |-> FALSE, submitted |-> FALSE,
   secretKey |-> "none", mnemonic |-> "none", printed |-> "none"]

\* The handler returns after printing a line.
SendEnds(locals, printed) ==
  /\ proc' = [proc EXCEPT ![Cli] = [locals EXCEPT !.pc = "returned", !.printed = printed]]
  /\ last' = Outcome("send", Null, NoArg, printed, NoRet, 0, {})

\* if (isNaN(amount) || amount <= 0) ..; if (!isValidAddress(toAddress)) ..;
\* then the preview and the confirmation prompt.
SendValidate(locals) ==
  IF amountRejected(locals.amount)
    THEN SendEnds(locals, "Invalid amount")
  ELSE IF ~isValidAddress(locals.toAddress)
    THEN SendEnds(locals, "Invalid Solana address")
  ELSE /\ proc' = [proc EXCEPT ![Cli] = [locals EXCEPT !.pc = "ask.confirm"]]
       /\ UNCHANGED last

\* /send with its arguments: getActiveWallet, then the amount and the
\* recipient taken from the arguments, or the first prompt.
SendCommand(args) ==
  LET wallet == getActiveWallet(walletFile, configFile, DEFAULT_CONFIG)
      locals == [SendLocals EXCEPT !.wallet = wallet]
  IN  /\ proc[Cli].pc \in {"idle", "returned"}
      /\ IF wallet = None
           THEN SendEnds(locals, "No active wallet. Create one with /new")
         ELSE IF Len(args) >= 2
           THEN SendValidate([locals EXCEPT !.amount = parseFloat(args[1]),
                                            !.toAddress = args[2]])
         ELSE /\ proc' = [proc EXCEPT ![Cli] = [locals EXCEPT !.pc = "ask.amount"]]
              /\ UNCHANGED last
      /\ UNCHANGED <<walletFile, configFile, DEFAULT_CONFIG, now, passwordOf>>

\* The answer to 'Amount (TETSUO): '.
SendAmount(text) ==
  /\ proc[Cli].pc = "ask.amount"
  /\ proc' = [proc EXCEPT ![Cli] =
                [@ EXCEPT !.pc = "ask.recipient", !.amount = parseFloat(text)]]
  /\ UNCHANGED <<walletFile, configFile, DEFAULT_CONFIG, now, passwordOf, last>>

\* The answer to 'Recipient address: ', and the two checks.
SendRecipient(text) ==
  /\ proc[Cli].pc = "ask.recipient"
  /\ SendValidate([proc[Cli] EXCEPT !.toAddress = text])
  /\ UNCHANGED <<walletFile, configFile, DEFAULT_CONFIG, now, passwordOf>>

\* The answer to 'Confirm? (y/N): '; askPassword is called after y or yes.
SendConfirm(text) ==
  LET locals == [proc[Cli] EXCEPT !.confirm = text]
  IN  /\ proc[Cli].pc = "ask.confirm"
      /\ IF notConfirmed(text)
           THEN SendEnds(locals, "Transaction cancelled")
           ELSE /\ proc' = [proc EXCEPT ![Cli] =
                              [locals EXCEPT !.pc = "ask.password", !.asked = TRUE]]
                /\ UNCHANGED last
      /\ UNCHANGED <<walletFile, configFile, DEFAULT_CONFIG, now, passwordOf>>

\* The password is entered: unlockWallet, createKeypairFromSecretKey,
\* loadConfig, new SolanaClient, and the call of client.sendTetsuo; what
\* unlockWallet throws is caught and printed.
SendPassword(password) ==
  LET me == proc[Cli]
      r == unlockWallet(walletFile, me.wallet[1].name, password)
      config == loadConfig(configFile, DEFAULT_CONFIG)
      unlocked == [me EXCEPT !.unlocked = TRUE, !.secretKey = "held", !.mnemonic = "held"]
  IN  /\ me.pc = "ask.password"
      /\ IF r.err # "ok"
           THEN SendEnds(me, r.err)
         ELSE IF config.err # "ok"
           THEN SendEnds(unlocked, config.err)
         ELSE /\ proc' = [proc EXCEPT ![Cli] =
                            [unlocked EXCEPT !.pc = "await.sendTetsuo", !.submitted = TRUE]]
              /\ UNCHANGED last
      /\ UNCHANGED <<walletFile, configFile, DEFAULT_CONFIG, now, passwordOf>>

\* client.sendTetsuo resolves, with success or with the error it caught;
\* the handler prints the result and returns.
SendResult(success) ==
  /\ proc[Cli].pc = "await.sendTetsuo"
  /\ SendEnds(proc[Cli], IF success THEN "Sent" ELSE "Transaction failed")
  /\ UNCHANGED <<walletFile, configFile, DEFAULT_CONFIG, now, passwordOf>>

NextSend ==
  \/ \E name \in {"a"} : CreateWallet(name, <<1>>, "mainnet", 0, 0, 0)
  \/ \E name \in {"a"} : DeleteWallet(name)
  \/ \E amount \in AmountTexts, address \in AddressTexts : SendCommand(<<amount, address>>)
  \/ SendCommand(<<>>)
  \/ \E text \in AmountTexts : SendAmount(text)
  \/ \E text \in AddressTexts : SendRecipient(text)
  \/ \E text \in ConfirmTexts : SendConfirm(text)
  \/ \E password \in StorePasswords : SendPassword(password)
  \/ \E success \in BOOLEAN : SendResult(success)

SpecSend == Init /\ [][NextSend]_vars

\* The command of the prompt process, as far as it got.
send == proc[Cli]
sending == send.op = "send"

\* C23: keys are cleared from memory after use: once the /send command that
\* unlocked a wallet has finished, whether the transfer succeeded or failed,
\* the secret key and the phrase unlockWallet returned have been wiped.
C23_KeysWipedAfterSend ==
  (sending /\ send.pc = "returned" /\ send.unlocked)
    => (send.secretKey = "wiped" /\ send.mnemonic = "wiped")

\* C27: in the /send command the password prompt, unlockWallet and the
\* submission of the transfer happen only after an active wallet was found,
\* the amount parsed to a number greater than 0, the recipient was a valid
\* address and the answer to the confirmation was y or yes; a command that
\* ended on one of these checks has asked, unlocked and submitted nothing.
C27_SendAfterChecks ==
  sending =>
    /\ (send.asked \/ send.unlocked \/ send.submitted) =>
         /\ send.wallet # None
         /\ ~send.amount.nan
         /\ send.amount.value > 0
         /\ send.toAddress \in AddressTexts
         /\ send.toAddress.base58
         /\ send.toAddress.bytes = 32
         /\ toLowerCase(send.confirm) \in {<<"y">>, <<"y", "e", "s">>}
    /\ send.printed \in {"No active wallet. Create one with /new", "Invalid amount",
                         "Invalid Solana address", "Transaction cancelled"}
         => (~send.asked /\ ~send.unlocked /\ ~send.submitted)
    /\ send.submitted => send.unlocked
    /\ send.unlocked => send.asked

\* C27 witness: the amount and the recipient were typed at the prompts, the
\* answer was YES, the password was right and the transfer was submitted.
C27_Witness ==
  /\ sending
  /\ send.pc = "await.sendTetsuo"
  /\ send.submitted
  /\ send.confirm = <<"Y", "E", "S">>
  /\ send.amount.value = 5

\* C27 witness of a refusal: the command ended on the recipient check, with
\* a good amount, and asked for nothing.
C27_WitnessRefused ==
  /\ sending
  /\ send.pc = "returned"
  /\ send.printed = "Invalid Solana address"
  /\ send.amount.value = 5
  /\ ~send.asked

----------------------------------------------------------------------------
(* One process, stopped in the middle of a call: killed between two file   *)
(* accesses, or by a write that fails with a storage error.                *)

\* importWalletFromMnemonic up to wallets.push(storedWallet).
ImportWalletCall(p, name, mnemonic, network) ==
  LET loaded == loadWallets(walletFile)
      keys == importWallet(mnemonic)
      storedWallet ==
        StoredWallet(name, keys.address, encrypt(mnemonic, <<1>>, 0, 0), now, network)
      op == "importWalletFromMnemonic"
  IN  /\ proc[p].pc = "idle"
      /\ \/ /\ loaded.err # "ok"
            /\ Return(p, proc[p].dflt, op, name, loaded.err, NoRet, {})
            /\ UNCHANGED now
         \/ /\ loaded.err = "ok"
            /\ nameTaken(loaded.wallets, name)
            /\ Return(p, proc[p].dflt, op, name, "AlreadyExists", NoRet, {})
            /\ UNCHANGED now
         \/ /\ loaded.err = "ok"
            /\ ~nameTaken(loaded.wallets, name)
            /\ keys.err # "ok"
            /\ Return(p, proc[p].dflt, op, name, keys.err, NoRet, {})
            /\ UNCHANGED now
         \/ /\ loaded.err = "ok"
            /\ ~nameTaken(loaded.wallets, name)
            /\ keys.err = "ok"
            /\ now < MaxClock
            /\ now' = now + 1
            /\ proc' = [proc EXCEPT ![p] =
                          [@ EXCEPT !.pc = "saveWallets", !.op = op, !.name = name,
                                    !.wallets = push(loaded.wallets, storedWallet)]]
            /\ UNCHANGED last
      /\ UNCHANGED <<walletFile, configFile, DEFAULT_CONFIG, passwordOf>>

\* fs.writeFileSync throws (no permission, read-only or full disk): when it
\* opens the file, which is left as it was, or after it truncated it.
\* Nothing in wallet.ts catches the error: the call throws it.
WriteThrows(p) ==
  LET me == proc[p]
  IN  /\ me.pc \in {"saveWallets", "saveWallets.write", "saveConfig", "saveConfig.write"}
      /\ Return(p, me.dflt, me.op, me.name, "StorageError", NoRet, me.wrote)
      /\ UNCHANGED <<walletFile, configFile, DEFAULT_CONFIG, now, passwordOf>>

KillNames == {"a", "b"}

NextKill ==
  \/ \E name \in KillNames : CreateWalletCall("p1", name, "devnet")
  \/ \E mnemonic \in ImportPhrases : ImportWalletCall("p1", "b", mnemonic, "mainnet")
  \/ \E name \in KillNames : DeleteWalletCall("p1", name)
  \/ SaveWalletsOpen("p1")
  \/ SaveWalletsWrite("p1")
  \/ LoadConfigStep("p1")
  \/ SaveConfigOpen("p1")
  \/ SaveConfigWrite("p1")
  \/ Kill("p1")

SpecKill == Init /\ [][NextKill]_vars

NextFault ==
  \/ \E name \in KillNames : CreateWalletCall("p1", name, "devnet")
  \/ \E name \in KillNames : DeleteWalletCall("p1", name)
  \/ SaveWalletsOpen("p1")
  \/ SaveWalletsWrite("p1")
  \/ LoadConfigStep("p1")
  \/ SaveConfigOpen("p1")
  \/ SaveConfigWrite("p1")
  \/ WriteThrows("p1")

SpecFault == Init /\ [][NextFault]_vars

\* C24: whenever the process is killed during createWallet,
\* importWalletFromMnemonic or deleteWallet, also between the write of the
\* store and the write of the configuration, the files left behind are
\* consistent: with no call under way and both files whole, the persisted
\* activeWallet is null or the name of a record of the persisted store.
C24_ConsistentAfterKill ==
  (/\ \A p \in Procs : proc[p].pc = "idle"
   /\ walletFile.st \in {"absent", "ok"}
   /\ configFile.st \in {"absent", "ok"})
    => (persistedActive = Null \/ some(walletFile.data, persistedActive))

\* C25: every record createWallet persisted had its phrase returned: when
\* createWallet has failed after writing the store, a storage error in the
\* write of the configuration included, the record it made is not in the
\* persisted store.
C25_NoRecordWithoutPhrase ==
  (/\ last.op = "createWallet"
   /\ last.err # "ok"
   /\ "wallets" \in last.wrote
   /\ \A p \in Procs : proc[p].pc = "idle"
   /\ walletFile.st = "ok")
    => ~some(walletFile.data, last.name)

----------------------------------------------------------------------------
(* Two processes on one store, both working on the same names.             *)

SameNames == {"a", "b"}

NextSame ==
  \/ \E p \in Procs, name \in SameNames : CreateWalletCall(p, name, "devnet")
  \/ \E p \in Procs, mnemonic \in ImportPhrases : ImportWalletCall(p, "a", mnemonic, "mainnet")
  \/ \E p \in Procs : DeleteWalletCall(p, "a")
  \/ \E p \in Procs : SaveWalletsOpen(p)
  \/ \E p \in Procs : SaveWalletsWrite(p)
  \/ \E p \in Procs : LoadConfigStep(p)
  \/ \E p \in Procs : SaveConfigOpen(p)
  \/ \E p \in Procs : SaveConfigWrite(p)

SpecSame == Init /\ [][NextSame]_vars

\* No two records of wallets have the same name.
uniqueNames(wallets) ==
  \A i, j \in 1..Len(wallets) : wallets[i].name = wallets[j].name => i = j

\* C26: whatever the interleaving of the load / check / save steps of
\* createWallet, importWalletFromMnemonic and deleteWallet in two processes
\* on the same file, the persisted store never holds two records with the
\* same name.
C26_UniqueUnderInterleaving ==
  walletFile.st = "ok" => uniqueNames(walletFile.data)

\* C26 witness: createWallet("a") returned without an error in both
\* processes, each having found no "a" in the store it loaded; no call is
\* under way and the persisted store holds one record, named "a".
C26_Witness ==
  /\ proc["p1"] = [IdleProc EXCEPT !.dflt = proc["p1"].dflt, !.done = <<"createWallet", "a">>]
  /\ proc["p2"] = [IdleProc EXCEPT !.dflt = proc["p2"].dflt, !.done = <<"createWallet", "a">>]
  /\ now = 2
  /\ walletFile.st = "ok"
  /\ Len(walletFile.data) = 1
  /\ walletFile.data[1].name = "a"

----------------------------------------------------------------------------
(* The fields of the configuration that the calls of wallet.ts leave       *)
(* alone.  config.json is the user's to edit: the endpoint is set there.   *)

FrameNames == {"a", "b"}
Endpoints == {"https://api.devnet.solana.com"}

\* config.json edited outside the program: another rpcEndpoint.
EditEndpoint(rpcEndpoint) ==
  /\ existsSync(configFile)
  /\ parses(configFile)
  /\ configFile.data.rpcEndpoint # rpcEndpoint
  /\ configFile' = [configFile EXCEPT !.data.rpcEndpoint = rpcEndpoint]
  /\ last' = Outcome("none", Null, NoArg, "ok", NoRet, 0, {})
  /\ UNCHANGED <<walletFile, DEFAULT_CONFIG, now, passwordOf, proc>>

NextFrame ==
  \/ \E name \in FrameNames, network \in Networks :
       CreateWallet(name, <<1>>, network, 0, 0, 0)
  \/ \E mnemonic \in ImportPhrases, network \in Networks :
       ImportWalletFromMnemonic("b", mnemonic, <<1>>, network, 0, 0)
  \/ \E name \in FrameNames, password \in StorePasswords : UnlockWallet(name, password)
  \/ \E name \in FrameNames : DeleteWallet(name)
  \/ \E name \in FrameNames : SetActiveWallet(name)
  \/ \E rpcEndpoint \in Endpoints : EditEndpoint(rpcEndpoint)

SpecFrame == Init /\ [][NextFrame]_vars

\* The persisted configuration; the defaults while there is no file.
persistedConfig == IF existsSync(configFile) THEN configFile.data ELSE DefaultConfig

FacadeOps ==
  {"createWallet", "importWalletFromMnemonic", "unlockWallet", "deleteWallet",
   "setActiveWallet"}

\* C28: no call of wallet.ts changes the rpcEndpoint of the configuration;
\* its network changes only in a successful createWallet or
\* importWalletFromMnemonic, to the network given; setActiveWallet and
\* deleteWallet change at most activeWallet, also when the wallet made
\* active has another network tag.
C28_EndpointAndNetworkFrame ==
  [][last'.op \in FacadeOps =>
       /\ persistedConfig'.rpcEndpoint = persistedConfig.rpcEndpoint
       /\ persistedConfig'.network # persistedConfig.network =>
            /\ last'.op \in CreateOps
            /\ last'.err = "ok"
       /\ (last'.op \in CreateOps /\ last'.err = "ok") =>
            persistedConfig'.network = walletFile'.data[Len(walletFile'.data)].network
       /\ last'.op \in {"setActiveWallet", "deleteWallet", "unlockWallet"} =>
            persistedConfig' =
              [persistedConfig EXCEPT !.activeWallet = persistedConfig'.activeWallet]]_vars

\* C28 witness: the endpoint was set in config.json, and setActiveWallet has
\* made active a wallet whose network tag is not the configured network.
C28_Witness ==
  /\ last.op = "setActiveWallet"
  /\ last.err = "ok"
  /\ persistedConfig.rpcEndpoint \in Endpoints
  /\ persistedConfig.activeWallet = last.name
  /\ \E i \in 1..Len(walletFile.data) :
       /\ walletFile.data[i].name = last.name
       /\ walletFile.data[i].network # persistedConfig.network

\* C28 witness for deleteWallet: the endpoint was set in config.json, the
\* active wallet was deleted and the wallet made active in its place has
\* another network tag than the configured network.
C28_WitnessDelete ==
  /\ last.op = "deleteWallet"
  /\ last.err = "ok"
  /\ "config" \in last.wrote
  /\ persistedConfig.rpcEndpoint \in Endpoints
  /\ Len(walletFile.data) = 1
  /\ persistedConfig.activeWallet = walletFile.data[1].name
  /\ walletFile.data[1].network # persistedConfig.network

----------------------------------------------------------------------------
(* The order of the records in the store.  The program is started on a     *)
(* store that an earlier run left: wallet "b", created before the clock of *)
(* this run, and active.                                                   *)

EarlierWallet ==
  StoredWallet("b", generateWallet(0).address,
               encrypt(generateWallet(0).mnemonic, <<1>>, 0, 0), 0 - 1, "mainnet")

InitOrder ==
  /\ walletFile = saveWallets(push(NoWallets, EarlierWallet))
  /\ configFile = saveConfig(activate(DefaultConfig, "b", "mainnet"))
  /\ DEFAULT_CONFIG = DefaultConfig
  /\ now = 0
  /\ passwordOf = [n \in Names |-> IF n = "b" THEN <<1>> ELSE NoPassword]
  /\ last = Outcome("none", Null, NoArg, "ok", NoRet, 0, {})
  /\ proc = [p \in Procs |-> IdleProc]

NextOrder ==
  \/ \E name \in Names : CreateWallet(name, <<1>>, "mainnet", 0, 0, 0)
  \/ \E name \in Names, mnemonic \in ImportPhrases :
       ImportWalletFromMnemonic(name, mnemonic, <<1>>, "mainnet", 0, 0)
  \/ \E name \in Names : DeleteWallet(name)
  \/ \E name \in Names : SetActiveWallet(name)

SpecOrder == InitOrder /\ [][NextOrder]_vars

\* The name of the record of wallets created first, or null.
oldest(wallets) ==
  IF wallets = NoWallets THEN Null
  ELSE (CHOOSE w \in {wallets[i] : i \in 1..Len(wallets)} :
          \A i \in 1..Len(wallets) : w.createdAt <= wallets[i].createdAt).name

\* wallets without its i-th record, the others in their order.
without(wallets, i) ==
  [j \in 1..(Len(wallets) - 1) |-> IF j < i THEN wallets[j] ELSE wallets[j + 1]]

\* C29: the persisted store keeps the records in the order of their
\* creation: createWallet and importWalletFromMnemonic put the new record
\* at the end, deleteWallet takes out one record and leaves the others in
\* their order, and the wallet made active when the active one is deleted
\* is the oldest one left.
C29_CreationOrder ==
  [][LET old == walletFile.data
         new == walletFile'.data
     IN  /\ (last'.op \in CreateOps /\ last'.err = "ok") =>
              /\ Len(new) = Len(old) + 1
              /\ SubSeq(new, 1, Len(old)) = old
              /\ new[Len(new)].name = last'.name
              /\ new[Len(new)].createdAt = now
         /\ (last'.op = "deleteWallet" /\ last'.err = "ok") =>
              /\ \E i \in 1..Len(old) : old[i].name = last'.name /\ new = without(old, i)
              /\ "config" \in last'.wrote => persistedActive' = oldest(new)
         /\ \A i, j \in 1..Len(new) : i < j => new[i].createdAt < new[j].createdAt]_vars

\* C29 witness: of three wallets the one in the middle was deleted, and the
\* two that are left are the oldest and the youngest, in this order.
C29_Witness ==
  /\ last.op = "deleteWallet"
  /\ last.err = "ok"
  /\ Len(walletFile.data) = 2
  /\ walletFile.data[1].createdAt = 0 - 1
  /\ walletFile.data[2].createdAt = 1

\* C29 witness of the change of the active wallet: of three wallets the
\* oldest one, which was active, was deleted, and the second is active.
C29_WitnessActive ==
  /\ last.op = "deleteWallet"
  /\ last.err = "ok"
  /\ "config" \in last.wrote
  /\ Len(walletFile.data) = 2
  /\ walletFile.data[1].createdAt = 0
  /\ walletFile.data[2].createdAt = 1
  /\ persistedActive = walletFile.data[1].name

----------------------------------------------------------------------------
(* The /watch command: the live balance monitor.  One step for each        *)
(* stretch of the handler between two awaits, and one for each key chunk   *)
(* that stdin delivers to onKey while the handler waits.                   *)

\* Refreshes shown by one monitor, at most.
MaxRefresh == 2

\* args[0] of /watch: nothing or a text.
IntervalTexts ==
  {[neg |-> FALSE, digits |-> <<>>, tail |-> TRUE]}
    \cup {[neg |-> FALSE, digits |-> <<n>>, tail |-> FALSE] : n \in {0, 1, 3, 100}}
    \cup {[neg |-> TRUE, digits |-> <<3>>, tail |-> FALSE]}

\* parseInt(text): the integer at the head of the text, NaN without one.
parseInt(text) == parseFloat(text)

max(a, b) == IF a >= b THEN a ELSE b
min(a, b) == IF a <= b THEN a ELSE b

\* Math.max(2, Math.min(60, parseInt(args[0]) || 2))
intervalSec(args) ==
  LET n == IF args = <<>> THEN NaN ELSE parseInt(args[1])
      orTwo == IF n.nan \/ n.value = 0 THEN 2 ELSE n.value
  IN  max(2, min(60, orTwo))

\* Chunks of bytes that stdin delivers: q, Q, ESC, Ctrl+C, another key, the
\* arrow-up sequence, and two keys read at once.
Chunks == {<<113>>, <<81>>, <<27>>, <<3>>, <<97>>, <<27, 91, 65>>, <<113, 97>>}

\* key.toString() of a chunk of ASCII bytes: the characters with these codes.
toString(key) == String(key)

\* onKey stopping the monitor for the lower-case q only.
quitKeyLowerOnly(char) == char = String(<<113>>)

\* char === 'q' || char === 'Q' || char === '\x1B' || char === '\x03'
quitKey(char) ==
  \/ char = String(<<113>>)
  \/ char = String(<<81>>)
  \/ char = String(<<27>>)
  \/ char = String(<<3>>)

\* The locals of the handler and the terminal: spinnerInterval is "null",
\* "set" (a running timer) or "cleared" (the id of a cleared timer);
\* pressedAt is where the handler stood when a quit key first arrived.
WatchLocals ==
  [pc |-> "watch", op |-> "watch", wallet |-> None, intervalSec |-> 2, isTTY |-> FALSE,
   rawMode |-> FALSE, listener |-> FALSE, running |-> FALSE, refreshCount |-> 0,
   spinnerInterval |-> "null", i |-> 0, pressedAt |-> "none"]

Awaiting == {"fetching", "countdown", "retryWait"}

\* while (running) { ... up to the await of the two balances }, and after
\* the loop the cleanup: raw mode off, the listener removed.
WatchLoop(locals) ==
  IF locals.running
    THEN [locals EXCEPT !.pc = "fetching", !.spinnerInterval = "set"]
    ELSE [locals EXCEPT !.pc = "returned", !.listener = FALSE,
                        !.rawMode = IF locals.isTTY THEN FALSE ELSE @]

\* /watch [interval]: getActiveWallet, the interval, raw mode, the listener,
\* and the loop up to the first fetch.
WatchCommand(args, isTTY) ==
  LET wallet == getActiveWallet(walletFile, configFile, DEFAULT_CONFIG)
      locals == [WatchLocals EXCEPT !.wallet = wallet, !.intervalSec = intervalSec(args),
                                    !.isTTY = isTTY, !.rawMode = isTTY,
                                    !.listener = TRUE, !.running = TRUE]
  IN  /\ proc[Cli].pc \in {"idle", "returned"}
      /\ proc' = [proc EXCEPT ![Cli] =
                    IF wallet = None THEN [WatchLocals EXCEPT !.pc = "returned"]
                    ELSE WatchLoop(locals)]
      /\ UNCHANGED <<walletFile, configFile, DEFAULT_CONFIG, now, passwordOf, last>>

\* stdin delivers a chunk to onKey while the handler awaits.
WatchKey(key) ==
  LET me == proc[Cli]
      quit == quitKey(toString(key))
  IN  /\ me.op = "watch"
      /\ me.pc \in Awaiting
      /\ me.listener
      /\ proc' = [proc EXCEPT ![Cli] =
                    [me EXCEPT
                       !.running = IF quit THEN FALSE ELSE @,
                       !.spinnerInterval = IF quit /\ @ # "null" THEN "cleared" ELSE @,
                       !.pressedAt = IF @ = "none" /\ key \in {<<113>>, <<81>>, <<27>>, <<3>>}
                                       THEN me.pc ELSE @]]
      /\ UNCHANGED <<walletFile, configFile, DEFAULT_CONFIG, now, passwordOf, last>>

\* Both balances arrive: the spinner is stopped, the card is printed, and
\* the countdown starts, or the loop goes on.
FetchResolves ==
  LET me == proc[Cli]
      shown == [me EXCEPT !.spinnerInterval = "null", !.refreshCount = @ + 1,
                          !.i = me.intervalSec]
  IN  /\ me.op = "watch"
      /\ me.pc = "fetching"
      /\ me.refreshCount < MaxRefresh
      /\ proc' = [proc EXCEPT ![Cli] =
                    IF shown.i > 0 /\ shown.running
                      THEN [shown EXCEPT !.pc = "countdown"]
                      ELSE WatchLoop(shown)]
      /\ UNCHANGED <<walletFile, configFile, DEFAULT_CONFIG, now, passwordOf, last>>

\* A balance request fails: the catch block stops the spinner and waits 2 s.
FetchRejects ==
  LET me == proc[Cli]
  IN  /\ me.op = "watch"
      /\ me.pc = "fetching"
      /\ proc' = [proc EXCEPT ![Cli] =
                    [me EXCEPT !.spinnerInterval = "null", !.pc = "retryWait"]]
      /\ UNCHANGED <<walletFile, configFile, DEFAULT_CONFIG, now, passwordOf, last>>

\* The 1 s timer of the countdown fires: i--, and the test i > 0 && running.
WatchTick ==
  LET me == proc[Cli]
      next == [me EXCEPT !.i = @ - 1]
  IN  /\ me.op = "watch"
      /\ me.pc = "countdown"
      /\ proc' = [proc EXCEPT ![Cli] =
                    IF next.i > 0 /\ next.running THEN next ELSE WatchLoop(next)]
      /\ UNCHANGED <<walletFile, configFile, DEFAULT_CONFIG, now, passwordOf, last>>

\* The 2 s timer of the catch block fires.
WatchRetry ==
  /\ proc[Cli].op = "watch"
  /\ proc[Cli].pc = "retryWait"
  /\ proc' = [proc EXCEPT ![Cli] = WatchLoop(proc[Cli])]
  /\ UNCHANGED <<walletFile, configFile, DEFAULT_CONFIG, now, passwordOf, last>>

\* Between two commands of the prompt.
AtPrompt == proc[Cli].pc \in {"idle", "returned"}

NextWatch ==
  \/ \E name \in {"a"} : AtPrompt /\ CreateWallet(name, <<1>>, "mainnet", 0, 0, 0)
  \/ \E name \in {"a"} : AtPrompt /\ DeleteWallet(name)
  \/ \E args \in {<<>>} \cup {<<text>> : text \in IntervalTexts}, isTTY \in BOOLEAN :
       WatchCommand(args, isTTY)
  \/ \E key \in Chunks : WatchKey(key)
  \/ FetchResolves
  \/ FetchRejects
  \/ WatchTick
  \/ WatchRetry

SpecWatch == Init /\ [][NextWatch]_vars

\* The pending fetch completes or fails, and the timers of Node fire.
FairSpecWatch ==
  /\ SpecWatch
  /\ WF_vars(FetchResolves \/ FetchRejects)
  /\ WF_vars(WatchTick)
  /\ WF_vars(WatchRetry)

watch == proc[Cli]
watching == watch.op = "watch"

\* C30: once q, Q, ESC or Ctrl+C has been pressed in the live balance
\* monitor, the monitor exits, the pending fetch completing or failing; no
\* fetch is started after the one in flight; and when the monitor has
\* exited, the key listener is removed and raw mode is off.
C30_WatchExits ==
  /\ (watching /\ watch.pc \in Awaiting /\ watch.pressedAt # "none")
       ~> (watching /\ watch.pc = "returned")
  /\ [][(watching /\ watch.pc \in Awaiting /\ watch.pressedAt # "none")
          => (proc'[Cli].pc = "fetching" => watch.pc = "fetching")]_vars
  /\ [](watching /\ watch.pc = "returned" => ~watch.listener /\ ~watch.rawMode)

\* C30 witness: in a terminal, a quit key arrived while the balances were
\* being fetched, after one refresh; the monitor has exited without another
\* refresh.
C30_Witness ==
  /\ watching
  /\ watch.pc = "returned"
  /\ watch.isTTY
  /\ watch.pressedAt = "fetching"
  /\ watch.refreshCount = 1
  /\ ~watch.running

\* C30 witness of a key during the countdown of a 60 s interval: the
\* monitor has exited.
C30_WitnessCountdown ==
  /\ watching
  /\ watch.pc = "returned"
  /\ watch.pressedAt = "countdown"
  /\ watch.intervalSec = 60
  /\ watch.i > 0

====
